---- MODULE Spec2Model ----
(***************************************************************************)
(* A model of the oracle-core box validators and action builders:          *)
(*   box_kind/pool_box.rs, contracts/pool.rs,                              *)
(*   commands/publish_data_point.rs,                                       *)
(*   cli_commands/transfer_oracle_token.rs.                                *)
(* Every function is modelled as the code computes it; a call is one       *)
(* action that records its arguments, its result and the collaborator      *)
(* calls it made, and Return gives control back to the caller.             *)
(***************************************************************************)
EXTENDS Integers, Sequences, FiniteSets, TLC

VARIABLES pc, fn, args, result, calls, locals

vars == <<pc, fn, args, result, calls, locals>>

(***************************************************************************)
(* Bounds of the model.                                                    *)
(***************************************************************************)
MaxTokens == 3
MaxAmount == 2
MaxWallet == 2
MaxReward == 3
MaxDatapoint == 40
MaxIndex == 3
MaxFeedRate == 8
CountedPublishes == 2
MaxWideOffset == 3

(***************************************************************************)
(* Rust values: Option, Result, panics.                                    *)
(***************************************************************************)
None == [ty |-> "None", v |-> 0]

Ok(x) == [kind |-> "Ok", err |-> <<>>, val |-> x]

Err(e) == [kind |-> "Err", err |-> e, val |-> None]

Panic == [kind |-> "Panic", err |-> <<>>, val |-> None]

NoArgs == [none |-> TRUE]

(***************************************************************************)
(* 32-bit machine integers. TLC's integers are 32-bit themselves, so a u32 *)
(* is kept as its two 16-bit halves <<hi, lo>>.                            *)
(***************************************************************************)
Half == 65536

I32Max == 2147483647

I32Min == -2147483647 - 1

\* `x as u32` for an i32 x: the same 32 bits read as unsigned
i32_as_u32(x) == <<(x \div Half) % Half, x % Half>>

\* `u as i32` for a u32 u: the same 32 bits read as signed
u32_as_i32(u) == IF u[1] >= Half \div 2 THEN (u[1] - Half) * Half + u[2]
                 ELSE u[1] * Half + u[2]

U32Max == <<Half - 1, Half - 1>>

\* u + 1 on u32, wrapping (what a build without overflow checks computes)
u32_wrapping_inc(u) == IF u[2] < Half - 1 THEN <<u[1], u[2] + 1>>
                       ELSE <<(u[1] + 1) % Half, 0>>

(***************************************************************************)
(* Token ids, tokens, constants, scripts.                                  *)
(***************************************************************************)
Tok(id, amount) == [token_id |-> id, amount |-> amount]

\* a script constant or register value: a type tag and a value
Const(ty, v) == [ty |-> ty, v |-> v]

TokenIdConst(id) == Const("TokenId", id)

\* ErgoTree: either a tree whose body failed to parse, or its constants
ErgoTree(parsed, constants) == [parsed |-> parsed, constants |-> constants]

\* ErgoTree::get_constant(index): Err on an unparsed tree, None past the end
get_constant(tree, index) ==
  IF ~tree.parsed THEN Err(<<"ErgoTreeError">>)
  ELSE IF index + 1 <= Len(tree.constants) THEN Ok(tree.constants[index + 1])
  ELSE Ok(None)

(***************************************************************************)
(* contracts/pool.rs                                                       *)
(***************************************************************************)
\* ? on an ergo-lib error inside a function returning PoolContractError
\* (#[derive(From)]): the error wrapped in its variant
from_PoolContractErrorVariant(variant, r) == Err(<<variant>> \o r.err)

PoolContract(tree, p) ==
  [ergo_tree |-> tree,
   refresh_nft_index |-> p.refresh_nft_index,
   update_nft_index |-> p.update_nft_index]

\* one slot of from_ergo_tree: read, type-check and compare the constant; the
\* TryExtractFromError carries the type that was found
check_nft_constant(tree, index, expected, noErr, unknownErr) ==
  LET c == get_constant(tree, index) IN
  IF c.kind = "Err" THEN Err(<<noErr>>)
  ELSE IF c.val = None THEN Err(<<noErr>>)
  ELSE IF c.val.ty # "TokenId" THEN Err(<<"TryExtractFrom", c.val.ty>>)
  ELSE IF c.val.v # expected THEN Err(<<unknownErr>>)
  ELSE Ok(c.val.v)

PoolContract_from_ergo_tree(tree, p) ==
  IF ~tree.parsed THEN Panic   \* dbg!(ergo_tree.get_constants().unwrap())
  ELSE
    LET r == check_nft_constant(tree, p.refresh_nft_index, p.refresh_nft_token_id,
                                "NoRefreshNftId", "UnknownRefreshNftId")
        u == check_nft_constant(tree, p.update_nft_index, p.update_nft_token_id,
                                "NoUpdateNftId", "UnknownUpdateNftId")
    IN IF r.kind = "Err" THEN r
       ELSE IF u.kind = "Err" THEN u
       ELSE Ok(PoolContract(tree, p))

\* ErgoTree::with_constant(index, constant): a new tree with the constant at
\* index replaced; Err on an unparsed tree, on an index past the end and on a
\* constant of another type than the one it replaces
with_constant(tree, index, constant) ==
  IF ~tree.parsed THEN Err(<<"ErgoTreeError">>)
  ELSE IF index + 1 > Len(tree.constants)
    THEN Err(<<"SetConstantError", "index out of bounds">>)
  ELSE IF tree.constants[index + 1].ty # constant.ty
    THEN Err(<<"SetConstantError", "constant type">>)
  ELSE Ok([tree EXCEPT !.constants[index + 1] = constant])

\* lines 40-51: the script of the p2s address with both ids substituted
bind_constants(parameters) ==
  LET script == parameters.p2s.script IN
  IF script.kind = "Err" THEN from_PoolContractErrorVariant("SigmaParsing", script)
  ELSE
    LET first == with_constant(script.val, parameters.refresh_nft_index,
                               TokenIdConst(parameters.refresh_nft_token_id))
    IN IF first.kind = "Err"
         THEN from_PoolContractErrorVariant("ErgoTreeConstant", first)
       ELSE
         LET second == with_constant(first.val, parameters.update_nft_index,
                                     TokenIdConst(parameters.update_nft_token_id))
         IN IF second.kind = "Err"
              THEN from_PoolContractErrorVariant("ErgoTreeConstant", second)
            ELSE second

\* faulty variant: the bound script is returned without being verified
PoolContract_new_unverified(parameters) ==
  LET ergo_tree == bind_constants(parameters) IN
  IF ergo_tree.kind = "Err" THEN ergo_tree
  ELSE Ok(PoolContract(ergo_tree.val, parameters))

PoolContract_new(parameters) ==
  LET ergo_tree == bind_constants(parameters) IN
  IF ergo_tree.kind = "Err" THEN ergo_tree
  ELSE PoolContract_from_ergo_tree(ergo_tree.val, parameters)

\* lines 103-119: get_constant(index).unwrap().unwrap()
\*   .try_extract_into::<TokenId>().unwrap()
unwrap_token_id_constant(tree, index) ==
  LET c == get_constant(tree, index) IN
  IF c.kind = "Err" THEN Panic
  ELSE IF c.val = None THEN Panic
  ELSE IF c.val.ty # "TokenId" THEN Panic
  ELSE Ok(c.val.v)

PoolContract_refresh_nft_token_id(c) == unwrap_token_id_constant(c.ergo_tree, c.refresh_nft_index)

PoolContract_update_nft_token_id(c) == unwrap_token_id_constant(c.ergo_tree, c.update_nft_index)

PoolContract_ergo_tree(c) == c.ergo_tree

(***************************************************************************)
(* box_kind/pool_box.rs                                                    *)
(***************************************************************************)
\* b.tokens.as_ref().ok_or(..)?.get(i): the token in slot i, if any
token_at(b, i) ==
  IF b.tokens = None THEN None
  ELSE IF i + 1 <= Len(b.tokens.v) THEN b.tokens.v[i + 1]
  ELSE None

\* try_extract_into::<T>() succeeds only on a constant of exactly type T
extracts_as(c, ty) == c # None /\ c.ty = ty

\* ? on a PoolContractError inside a function returning PoolBoxError (#[from])
from_PoolContractError(r) ==
  IF r.kind = "Err" THEN Err(<<"PoolContractError">> \o r.err) ELSE r

check_pool_nft_then_registers(b, inputs) ==
  IF b.tokens = None THEN Err(<<"NoTokens">>)
  ELSE IF token_at(b, 0) = None THEN Err(<<"NoTokens">>)
  ELSE IF token_at(b, 0).token_id # inputs.pool_nft_token_id
    THEN Err(<<"UnknownPoolNftId">>)
  ELSE IF ~extracts_as(b.R4, "Long") THEN Err(<<"NoDataPoint">>)
  ELSE IF ~extracts_as(b.R5, "Int") THEN Err(<<"NoEpochCounter">>)
  ELSE Ok(None)

\* faulty variant: the reward token's id is not compared
PoolBoxWrapper_new_any_reward_id(b, inputs) ==
  LET first == check_pool_nft_then_registers(b, inputs) IN
  IF first.kind = "Err" THEN first
  ELSE IF token_at(b, 1) = None THEN Err(<<"NoRewardToken">>)
  ELSE
    LET c == from_PoolContractError(
               PoolContract_from_ergo_tree(b.ergo_tree, inputs.contract_inputs))
    IN IF c.kind # "Ok" THEN c
       ELSE Ok([ergo_box |-> b, contract |-> c.val])

\* faulty variant: the reward token slot is examined before the registers
PoolBoxWrapper_new_tokens_first(b, inputs) ==
  IF b.tokens = None THEN Err(<<"NoTokens">>)
  ELSE IF token_at(b, 0).token_id # inputs.pool_nft_token_id
    THEN Err(<<"UnknownPoolNftId">>)
  ELSE IF token_at(b, 1) = None THEN Err(<<"NoRewardToken">>)
  ELSE IF token_at(b, 1).token_id # inputs.reward_token_id
    THEN Err(<<"UnknownRewardTokenId">>)
  ELSE IF ~extracts_as(b.R4, "Long") THEN Err(<<"NoDataPoint">>)
  ELSE IF ~extracts_as(b.R5, "Int") THEN Err(<<"NoEpochCounter">>)
  ELSE
    LET c == from_PoolContractError(
               PoolContract_from_ergo_tree(b.ergo_tree, inputs.contract_inputs))
    IN IF c.kind # "Ok" THEN c
       ELSE Ok([ergo_box |-> b, contract |-> c.val])

PoolBoxWrapper_new(b, inputs) ==
  LET first == check_pool_nft_then_registers(b, inputs) IN
  IF first.kind = "Err" THEN first
  ELSE IF token_at(b, 1) = None THEN Err(<<"NoRewardToken">>)
  ELSE IF token_at(b, 1).token_id # inputs.reward_token_id
    THEN Err(<<"UnknownRewardTokenId">>)
  ELSE
    LET c == from_PoolContractError(
               PoolContract_from_ergo_tree(b.ergo_tree, inputs.contract_inputs))
    IN IF c.kind # "Ok" THEN c
       ELSE Ok([ergo_box |-> b, contract |-> c.val])

\* impl PoolBox for PoolBoxWrapper
PoolBox_epoch_counter(w) == i32_as_u32(w.ergo_box.R5.v)

PoolBox_rate(w) == w.ergo_box.R4.v

PoolBox_pool_nft_token(w) == w.ergo_box.tokens.v[1]

PoolBox_reward_token(w) == w.ergo_box.tokens.v[2]

(***************************************************************************)
(* commands/publish_data_point.rs: the price policy.                       *)
(* An f64 is kept as an exact ratio (or an infinity, or NaN). For operands *)
(* of magnitude below 10000 the IEEE-754 quotient and products of  *)
(* the code compare and truncate exactly as the exact ratios do.           *)
(***************************************************************************)
\* `a as f64 / b as f64`
f64_div(a, b) ==
  IF b = 0 THEN (IF a = 0 THEN [kind |-> "nan", num |-> 0, den |-> 1]
                 ELSE IF a > 0 THEN [kind |-> "pinf", num |-> 1, den |-> 1]
                 ELSE [kind |-> "ninf", num |-> -1, den |-> 1])
  ELSE IF b > 0 THEN [kind |-> "fin", num |-> a, den |-> b]
  ELSE [kind |-> "fin", num |-> -a, den |-> -b]

\* d > n/m and d < n/m on f64 (m > 0); every comparison with NaN is false
f64_gt(d, n, m) ==
  \/ d.kind = "pinf"
  \/ d.kind = "fin" /\ d.num * m > n * d.den

f64_lt(d, n, m) ==
  \/ d.kind = "ninf"
  \/ d.kind = "fin" /\ d.num * m < n * d.den

\* `(x as f64 * n/m) as i64`: the cast truncates toward zero
f64_mul_as_i64(x, n, m) ==
  IF x >= 0 THEN (x * n) \div m ELSE -(((-x) * n) \div m)

\* faulty variant: the capped value is rounded to the nearest integer
compute_new_datapoint_rounded(datapoint, old_datapoint) ==
  LET difference == f64_div(datapoint, old_datapoint) IN
  IF f64_gt(difference, 2, 1) THEN datapoint
  ELSE IF f64_lt(difference, 1, 2) THEN datapoint
  ELSE IF f64_lt(difference, 9951, 10000)
    THEN f64_mul_as_i64(2 * old_datapoint, 9951, 10000)
         - f64_mul_as_i64(old_datapoint, 9951, 10000)
  ELSE IF f64_gt(difference, 10049, 10000)
    THEN f64_mul_as_i64(2 * old_datapoint, 10049, 10000)
         - f64_mul_as_i64(old_datapoint, 10049, 10000)
  ELSE datapoint

\* faulty variant: the upper bound 2.00 is inclusive
compute_new_datapoint_inclusive(datapoint, old_datapoint) ==
  LET difference == f64_div(datapoint, old_datapoint) IN
  IF ~f64_lt(difference, 2, 1) /\ difference.kind # "nan" THEN datapoint
  ELSE IF f64_lt(difference, 1, 2) THEN datapoint
  ELSE IF f64_lt(difference, 9951, 10000)
    THEN f64_mul_as_i64(old_datapoint, 9951, 10000)
  ELSE IF f64_gt(difference, 10049, 10000)
    THEN f64_mul_as_i64(old_datapoint, 10049, 10000)
  ELSE datapoint

compute_new_datapoint(datapoint, old_datapoint) ==
  LET difference == f64_div(datapoint, old_datapoint) IN
  IF f64_gt(difference, 2, 1) THEN datapoint
  ELSE IF f64_lt(difference, 1, 2) THEN datapoint
  ELSE IF f64_lt(difference, 9951, 10000)
    THEN f64_mul_as_i64(old_datapoint, 9951, 10000)
  ELSE IF f64_gt(difference, 10049, 10000)
    THEN f64_mul_as_i64(old_datapoint, 10049, 10000)
  ELSE datapoint

(***************************************************************************)
(* commands/publish_data_point.rs: the price policy on the whole positive  *)
(* i64 range, with the f64 arithmetic of the code bit for bit. An i64 too  *)
(* wide for the integers of the model checker is a sequence of limbs of    *)
(* LimbBits bits, least significant first, without a leading zero limb; an *)
(* f64 holding an integer is that integer rounded to 53 significant bits.  *)
(***************************************************************************)
LimbBits == 15

Limb == 32768

RECURSIVE wide_norm(_)
wide_norm(a) ==
  IF a # <<>> /\ a[Len(a)] = 0 THEN wide_norm(SubSeq(a, 1, Len(a) - 1)) ELSE a

RECURSIVE wide_from_int(_)
wide_from_int(n) == IF n = 0 THEN <<>> ELSE <<n % Limb>> \o wide_from_int(n \div Limb)

RECURSIVE wide_add_from(_, _, _, _)
wide_add_from(a, b, i, carry) ==
  IF i > Len(a) /\ i > Len(b) THEN (IF carry = 0 THEN <<>> ELSE <<carry>>)
  ELSE LET t == (IF i <= Len(a) THEN a[i] ELSE 0) + (IF i <= Len(b) THEN b[i] ELSE 0) + carry
       IN <<t % Limb>> \o wide_add_from(a, b, i + 1, t \div Limb)

wide_add(a, b) == wide_add_from(a, b, 1, 0)

\* a - b for a >= b
RECURSIVE wide_sub_from(_, _, _, _)
wide_sub_from(a, b, i, borrow) ==
  IF i > Len(a) THEN <<>>
  ELSE LET t == a[i] - (IF i <= Len(b) THEN b[i] ELSE 0) - borrow
       IN <<t % Limb>> \o wide_sub_from(a, b, i + 1, IF t < 0 THEN 1 ELSE 0)

wide_sub(a, b) == wide_norm(wide_sub_from(a, b, 1, 0))

\* the limbs from i down decide: -1, 0 or 1
RECURSIVE wide_cmp_from(_, _, _)
wide_cmp_from(a, b, i) ==
  IF i = 0 THEN 0
  ELSE IF a[i] < b[i] THEN -1
  ELSE IF a[i] > b[i] THEN 1
  ELSE wide_cmp_from(a, b, i - 1)

wide_cmp(a, b) ==
  IF Len(a) < Len(b) THEN -1
  ELSE IF Len(a) > Len(b) THEN 1
  ELSE wide_cmp_from(a, b, Len(a))

RECURSIVE wide_mul_limb_from(_, _, _, _)
wide_mul_limb_from(a, s, i, carry) ==
  IF i > Len(a) THEN (IF carry = 0 THEN <<>> ELSE <<carry>>)
  ELSE LET t == a[i] * s + carry
       IN <<t % Limb>> \o wide_mul_limb_from(a, s, i + 1, t \div Limb)

\* a * s for one limb s
wide_mul_limb(a, s) == wide_norm(wide_mul_limb_from(a, s, 1, 0))

\* a * Limb^k
shift_limbs(a, k) == IF a = <<>> THEN <<>> ELSE [i \in 1..k |-> 0] \o a

RECURSIVE wide_mul(_, _)
wide_mul(a, b) ==
  IF b = <<>> THEN <<>>
  ELSE wide_add(wide_mul_limb(a, b[1]), shift_limbs(wide_mul(a, Tail(b)), 1))

\* floor(a / d) for one limb d, by long division from limb i down
RECURSIVE wide_div_limb_from(_, _, _, _)
wide_div_limb_from(a, d, i, rem) ==
  IF i = 0 THEN <<>>
  ELSE LET t == rem * Limb + a[i]
       IN wide_div_limb_from(a, d, i - 1, t % d) \o <<t \div d>>

wide_div_limb(a, d) == wide_norm(wide_div_limb_from(a, d, Len(a), 0))

RECURSIVE pow2(_)
pow2(k) == IF k = 0 THEN 1 ELSE 2 * pow2(k - 1)

\* a * 2^k
wide_shl(a, k) == shift_limbs(wide_mul_limb(a, pow2(k % LimbBits)), k \div LimbBits)

\* floor(a / 2^k)
wide_shr(a, k) ==
  IF k \div LimbBits >= Len(a) THEN <<>>
  ELSE wide_div_limb(SubSeq(a, k \div LimbBits + 1, Len(a)), pow2(k % LimbBits))

RECURSIVE int_bit_length(_)
int_bit_length(n) == IF n = 0 THEN 0 ELSE 1 + int_bit_length(n \div 2)

wide_bit_length(a) ==
  IF a = <<>> THEN 0 ELSE LimbBits * (Len(a) - 1) + int_bit_length(a[Len(a)])

wide_is_odd(a) == a # <<>> /\ a[1] % 2 = 1

F64MantissaBits == 53

\* `as f64` of a non-negative integer: round to nearest, ties to even
round_to_f64(a) ==
  LET n == wide_bit_length(a) IN
  IF n <= F64MantissaBits THEN a
  ELSE LET s == n - F64MantissaBits
           q == wide_shr(a, s)
           r == wide_sub(a, wide_shl(q, s))
           c == wide_cmp(r, wide_shl(<<1>>, s - 1))
           up == c = 1 \/ (c = 0 /\ wide_is_odd(q))
       IN wide_shl(IF up THEN wide_add(q, <<1>>) ELSE q, s)

\* the f64 literals of the policy as m / 2^k, with m a 53-bit mantissa; 0.50
\* is only compared with `<` and is scaled so that the f64 before it is
\* (m - 1) / 2^k like for the others
F64_2_00 == [m |-> <<0, 0, 0, 128>>, k |-> 51]

F64_0_50 == [m |-> <<0, 0, 0, 256>>, k |-> 54]

F64_0_9951 == [m |-> <<31929, 26895, 24431, 254>>, k |-> 53]

F64_1_0049 == [m |-> <<419, 2936, 20552, 128>>, k |-> 52]

\* a / b > c in f64: the quotient rounds above c when it lies beyond the
\* midpoint of c and the next f64, or on it while the mantissa of c is odd
f64_quotient_gt(a, b, c) ==
  LET t == wide_cmp(wide_shl(a, c.k + 1), wide_mul(b, wide_add(wide_mul_limb(c.m, 2), <<1>>)))
  IN t = 1 \/ (t = 0 /\ wide_is_odd(c.m))

\* a / b < c in f64, with the midpoint of c and the f64 before it
f64_quotient_lt(a, b, c) ==
  LET t == wide_cmp(wide_shl(a, c.k + 1), wide_mul(b, wide_sub(wide_mul_limb(c.m, 2), <<1>>)))
  IN t = -1 \/ (t = 0 /\ wide_is_odd(c.m))

WideI64Max == <<32767, 32767, 32767, 32767, 7>>

\* (b * c) as i64 for an f64 b: the product rounds to an f64, the cast
\* truncates and saturates
f64_product_as_i64(b, c) ==
  LET t == wide_shr(round_to_f64(wide_mul(b, c.m)), c.k)
  IN IF wide_cmp(t, WideI64Max) = 1 THEN WideI64Max ELSE t

\* compute_new_datapoint for positive arguments given as limbs
compute_new_datapoint_wide(datapoint, old_datapoint) ==
  LET a == round_to_f64(datapoint)
      b == round_to_f64(old_datapoint)
  IN IF f64_quotient_gt(a, b, F64_2_00) THEN datapoint
     ELSE IF f64_quotient_lt(a, b, F64_0_50) THEN datapoint
     ELSE IF f64_quotient_lt(a, b, F64_0_9951) THEN f64_product_as_i64(b, F64_0_9951)
     ELSE IF f64_quotient_gt(a, b, F64_1_0049) THEN f64_product_as_i64(b, F64_1_0049)
     ELSE datapoint

(***************************************************************************)
(* Oracle boxes (box_kind/oracle_box.rs): the wrapper and its accessors.   *)
(* A Posted box carries R4 = public key, R5 = epoch counter, R6 = rate; a  *)
(* Collected box carries R4 only. Tokens: slot 0 the oracle token, slot 1  *)
(* the reward token.                                                       *)
(***************************************************************************)
\* a u64 holding a value of i32 magnitude: <<upper 32 bits all ones?, hi, lo>>
i64_as_u64(x) == <<IF x < 0 THEN 1 ELSE 0>> \o i32_as_u32(x)

u64_as_i64(u) == IF u[1] = 1 THEN (u[2] - Half) * Half + u[3]
                 ELSE u[2] * Half + u[3]

OracleBox_oracle_token(w) == w.ergo_box.tokens.v[1]

OracleBox_reward_token(w) == w.ergo_box.tokens.v[2]

OracleBox_public_key(w) == w.ergo_box.R4.v

OracleBox_rate(w) == i64_as_u64(w.ergo_box.R6.v)

OracleBox_epoch_counter(w) == i32_as_u32(w.ergo_box.R5.v)

(***************************************************************************)
(* ergo-lib: ErgoBoxCandidateBuilder, SimpleBoxSelector, TxBuilder, as the *)
(* action builders use them.                                               *)
(***************************************************************************)
Candidate(value, tree, height, tokens, r4, r5, r6) ==
  [value |-> value, ergo_tree |-> tree, creation_height |-> height,
   tokens |-> tokens, R4 |-> r4, R5 |-> r5, R6 |-> r6]

\* serialized size of a candidate, in bytes (approximate per-field sizes)
box_size(c) ==
  100 + 40 * Len(c.tokens)
  + (IF c.R4 = None THEN 0 ELSE 34)
  + (IF c.R5 = None THEN 0 ELSE 5)
  + (IF c.R6 = None THEN 0 ELSE 9)

\* ErgoBoxCandidateBuilder::build: the value must pay for the box's bytes
\* (360 nanoErg per byte)
ErgoBoxCandidateBuilder_build(c) ==
  IF c.value < 360 * box_size(c) THEN Err(<<"BoxValueTooLow">>) ELSE Ok(c)

RECURSIVE sum_values(_)
sum_values(boxes) ==
  IF boxes = <<>> THEN 0 ELSE boxes[1].value + sum_values(Tail(boxes))

\* SimpleBoxSelector::select(inputs, target_balance, &[]): take boxes in order
\* until the target is covered; the surplus becomes one change box
SimpleBoxSelector_select(inputs, target_balance) ==
  IF sum_values(inputs) < target_balance THEN Err(<<"NotEnoughCoins">>)
  ELSE
    LET n == CHOOSE k \in 0..Len(inputs) :
               /\ sum_values(SubSeq(inputs, 1, k)) >= target_balance
               /\ \A j \in 0..(k - 1) :
                    sum_values(SubSeq(inputs, 1, j)) < target_balance
        boxes == SubSeq(inputs, 1, n)
        change == sum_values(boxes) - target_balance
    IN Ok([boxes |-> boxes,
           change_boxes |-> IF change > 0 THEN <<change>> ELSE <<>>])

PlainCandidate(value, owner, height) ==
  Candidate(value, owner, height, <<>>, None, None, None)

\* the context extension of an input: the one set for its box id, else empty
extension_of(box_id, ctx_box_id, ctx_ext) ==
  IF box_id = ctx_box_id THEN ctx_ext ELSE <<>>

\* TxBuilder::new(..) + set_context_extension(ctx_box_id, ctx_ext) + build():
\* inputs in selection order, outputs = candidates, change boxes, fee box
TxBuilder_build(box_selection, output_candidates, height, fee, change_address, ctx_box_id, ctx_ext) ==
  LET ins == box_selection.boxes
      ids == {ins[i].box_id : i \in 1..Len(ins)}
      changes == [i \in 1..Len(box_selection.change_boxes) |->
                    PlainCandidate(box_selection.change_boxes[i],
                                   change_address, height)]
      outs == output_candidates \o changes
              \o <<PlainCandidate(fee, "miners_fee", height)>>
  IN IF ins = <<>> \/ output_candidates = <<>> THEN Err(<<"InvalidArgs">>)
     ELSE IF Cardinality(ids) # Len(ins) THEN Err(<<"InvalidArgs">>)
     ELSE IF sum_values(ins) < sum_values(outs) THEN Err(<<"NotEnoughCoins">>)
     ELSE Ok([inputs |-> [i \in 1..Len(ins) |->
                            [box_id |-> ins[i].box_id,
                             extension |-> extension_of(ins[i].box_id,
                                                        ctx_box_id, ctx_ext)]],
              outputs |-> outs])

\* BoxValue::SAFE_USER_MIN, in nanoErg
SAFE_USER_MIN == 1000000

\* ContextExtension { values: vec![(0, 0i32.into())] }
ctx_ext_index0 == <<<<0, Const("Int", 0)>>>>

(***************************************************************************)
(* commands/publish_data_point.rs: build_publish_datapoint_action.         *)
(* The sources are given by what they return; overflow_checks is the build *)
(* profile (a u32 overflow panics with it and wraps without it). The       *)
(* result comes with the collaborator calls made, in order.                *)
(***************************************************************************)
\* `u + 1` on u32
u32_add_one(u, overflow_checks) ==
  IF u = U32Max THEN (IF overflow_checks THEN Panic ELSE Ok(u32_wrapping_inc(u)))
  ELSE Ok(u32_wrapping_inc(u))

\* the ? operator with a #[derive(From)] error enum: wrap the error
from_err(variant, r) == Err(<<variant>> \o r.err)

Outcome(res, log) == [res |-> res, calls |-> log]

\* lines 59-74: the single output box
\* faulty variant: the arguments of compute_new_datapoint are exchanged
publish_output_candidate_swapped(in_oracle_box, new_epoch_counter, height, new_datapoint) ==
  Candidate(in_oracle_box.ergo_box.value,
            in_oracle_box.ergo_box.ergo_tree,
            height,
            <<OracleBox_oracle_token(in_oracle_box),
              OracleBox_reward_token(in_oracle_box)>>,
            Const("GroupElement", OracleBox_public_key(in_oracle_box)),
            Const("Int", new_epoch_counter),
            Const("Long", compute_new_datapoint(
                            u64_as_i64(OracleBox_rate(in_oracle_box)),
                            new_datapoint)))

publish_output_candidate(in_oracle_box, new_epoch_counter, height, new_datapoint) ==
  Candidate(in_oracle_box.ergo_box.value,
            in_oracle_box.ergo_box.ergo_tree,
            height,
            <<OracleBox_oracle_token(in_oracle_box),
              OracleBox_reward_token(in_oracle_box)>>,
            Const("GroupElement", OracleBox_public_key(in_oracle_box)),
            Const("Int", new_epoch_counter),
            Const("Long", compute_new_datapoint(
                            new_datapoint,
                            u64_as_i64(OracleBox_rate(in_oracle_box)))))

\* lines 76-101: wallet boxes, selection, transaction
\* faulty variant: the wallet boxes come first and the oracle box last
publish_assemble_tx_oracle_last(in_oracle_box, output_candidate, wallet_src, height, change_address, log) ==
  LET log2 == Append(log, "get_unspent_wallet_boxes") IN
  IF wallet_src.kind = "Err" THEN Outcome(from_err("Node", wallet_src), log2)
  ELSE
    LET tx_fee == SAFE_USER_MIN
        selection == SimpleBoxSelector_select(wallet_src.val, tx_fee)
    IN IF selection.kind = "Err"
         THEN Outcome(from_err("BoxSelector", selection), log2)
       ELSE
         LET box_selection ==
               [boxes |-> selection.val.boxes \o <<in_oracle_box.ergo_box>>,
                change_boxes |-> selection.val.change_boxes]
             tx == TxBuilder_build(box_selection, <<output_candidate>>, height,
                                   tx_fee, change_address,
                                   in_oracle_box.ergo_box.box_id, ctx_ext_index0)
         IN IF tx.kind = "Err" THEN Outcome(from_err("TxBuilder", tx), log2)
            ELSE Outcome(Ok(tx.val), log2)

publish_assemble_tx(in_oracle_box, output_candidate, wallet_src, height, change_address, log) ==
  LET log2 == Append(log, "get_unspent_wallet_boxes") IN
  IF wallet_src.kind = "Err" THEN Outcome(from_err("Node", wallet_src), log2)
  ELSE
    LET tx_fee == SAFE_USER_MIN
        selection == SimpleBoxSelector_select(wallet_src.val, tx_fee)
    IN IF selection.kind = "Err"
         THEN Outcome(from_err("BoxSelector", selection), log2)
       ELSE
         LET box_selection ==
               [boxes |-> <<in_oracle_box.ergo_box>> \o selection.val.boxes,
                change_boxes |-> selection.val.change_boxes]
             tx == TxBuilder_build(box_selection, <<output_candidate>>, height,
                                   tx_fee, change_address,
                                   in_oracle_box.ergo_box.box_id, ctx_ext_index0)
         IN IF tx.kind = "Err" THEN Outcome(from_err("TxBuilder", tx), log2)
            ELSE Outcome(Ok(tx.val), log2)

\* faulty variant: the reward token amount is not examined
build_publish_datapoint_action_any_reward(pool_src, oracle_src, wallet_src, height, change_address, new_datapoint, overflow_checks) ==
  LET log1 == <<"get_pool_box">>
      log2 == <<"get_pool_box", "get_local_oracle_datapoint_box">>
  IN
  IF pool_src.kind = "Err" THEN Outcome(from_err("StageError", pool_src), log1)
  ELSE IF oracle_src.kind = "Err"
    THEN Outcome(from_err("StageError", oracle_src), log2)
  ELSE
    LET in_pool_box == pool_src.val
        in_oracle_box == oracle_src.val
        next == u32_add_one(PoolBox_epoch_counter(in_pool_box), overflow_checks)
    IN
      IF next.kind = "Panic" THEN Outcome(Panic, log2)
      ELSE
        LET built == ErgoBoxCandidateBuilder_build(
                       publish_output_candidate(in_oracle_box,
                                                u32_as_i32(next.val),
                                                height, new_datapoint))
        IN IF built.kind = "Err"
             THEN Outcome(from_err("ErgoBoxCandidateBuilder", built), log2)
           ELSE publish_assemble_tx(in_oracle_box, built.val, wallet_src,
                                    height, change_address, log2)

build_publish_datapoint_action(pool_src, oracle_src, wallet_src, height, change_address, new_datapoint, overflow_checks) ==
  LET log1 == <<"get_pool_box">>
      log2 == <<"get_pool_box", "get_local_oracle_datapoint_box">>
  IN
  IF pool_src.kind = "Err" THEN Outcome(from_err("StageError", pool_src), log1)
  ELSE IF oracle_src.kind = "Err"
    THEN Outcome(from_err("StageError", oracle_src), log2)
  ELSE
    LET in_pool_box == pool_src.val
        in_oracle_box == oracle_src.val
    IN
    IF OracleBox_reward_token(in_oracle_box).amount = 0
      THEN Outcome(Err(<<"NoRewardToken">>), log2)
    ELSE
      LET next == u32_add_one(PoolBox_epoch_counter(in_pool_box), overflow_checks) IN
      IF next.kind = "Panic" THEN Outcome(Panic, log2)
      ELSE
        LET built == ErgoBoxCandidateBuilder_build(
                       publish_output_candidate(in_oracle_box,
                                                u32_as_i32(next.val),
                                                height, new_datapoint))
        IN IF built.kind = "Err"
             THEN Outcome(from_err("ErgoBoxCandidateBuilder", built), log2)
           ELSE publish_assemble_tx(in_oracle_box, built.val, wallet_src,
                                    height, change_address, log2)

(***************************************************************************)
(* box_kind/oracle_box.rs: the oracle box candidate builders.              *)
(***************************************************************************)
make_oracle_box_candidate(contract, public_key, datapoint, epoch_counter, oracle_token, reward_token, value, creation_height) ==
  ErgoBoxCandidateBuilder_build(
    Candidate(value, contract.ergo_tree, creation_height,
              <<oracle_token, reward_token>>,
              Const("GroupElement", public_key),
              Const("Int", u32_as_i32(epoch_counter)),
              Const("Long", datapoint)))

make_collected_oracle_box_candidate(contract, public_key, oracle_token, reward_token, value, creation_height) ==
  ErgoBoxCandidateBuilder_build(
    Candidate(value, contract.ergo_tree, creation_height,
              <<oracle_token, reward_token>>,
              Const("GroupElement", public_key), None, None))

(***************************************************************************)
(* box_kind/pool_box.rs: the pool box candidate builder.                   *)
(***************************************************************************)
make_pool_box_candidate(contract, datapoint, epoch_counter, pool_nft_token, reward_token, value, creation_height) ==
  ErgoBoxCandidateBuilder_build(
    Candidate(value, PoolContract_ergo_tree(contract), creation_height,
              <<pool_nft_token, reward_token>>,
              Const("Long", datapoint),
              Const("Int", epoch_counter),
              None))

(***************************************************************************)
(* cli_commands/transfer_oracle_token.rs: build_transfer_oracle_token_tx.  *)
(***************************************************************************)
\* oracle_config::BASE_FEE
BASE_FEE == SAFE_USER_MIN

\* lines 123-144: the output candidate, by the variant of the input box
\* faulty variant: the collected shape is built whatever the variant of the input
transfer_output_candidate_always_collected(in_oracle_box, p2pk_dest, height) ==
  make_collected_oracle_box_candidate(in_oracle_box.contract, p2pk_dest,
                            OracleBox_oracle_token(in_oracle_box),
                            OracleBox_reward_token(in_oracle_box),
                            in_oracle_box.ergo_box.value, height)

transfer_output_candidate(in_oracle_box, p2pk_dest, height) ==
  IF in_oracle_box.variant = "Posted" THEN
    make_oracle_box_candidate(in_oracle_box.contract, p2pk_dest,
                              u64_as_i64(OracleBox_rate(in_oracle_box)),
                              OracleBox_epoch_counter(in_oracle_box),
                              OracleBox_oracle_token(in_oracle_box),
                              OracleBox_reward_token(in_oracle_box),
                              in_oracle_box.ergo_box.value, height)
  ELSE
    make_collected_oracle_box_candidate(in_oracle_box.contract, p2pk_dest,
                              OracleBox_oracle_token(in_oracle_box),
                              OracleBox_reward_token(in_oracle_box),
                              in_oracle_box.ergo_box.value, height)

\* lines 146-171: wallet boxes, selection, transaction
transfer_assemble_tx(in_oracle_box, oracle_box_candidate, wallet_src, height, change_address, log) ==
  LET log2 == Append(log, "get_unspent_wallet_boxes") IN
  IF wallet_src.kind = "Err" THEN Outcome(from_err("WalletData", wallet_src), log2)
  ELSE
    LET target_balance == BASE_FEE
        selection == SimpleBoxSelector_select(wallet_src.val, target_balance)
    IN IF selection.kind = "Err"
         THEN Outcome(from_err("BoxSelector", selection), log2)
       ELSE
         LET box_selection ==
               [boxes |-> <<in_oracle_box.ergo_box>> \o selection.val.boxes,
                change_boxes |-> selection.val.change_boxes]
             tx == TxBuilder_build(box_selection, <<oracle_box_candidate>>,
                                   height, target_balance, change_address,
                                   in_oracle_box.ergo_box.box_id, ctx_ext_index0)
         IN IF tx.kind = "Err" THEN Outcome(from_err("TxBuilder", tx), log2)
            ELSE Outcome(Ok(tx.val), log2)

\* faulty variant: the destination is examined before the reward token count
build_transfer_oracle_token_tx_dest_first(oracle_src, wallet_src, oracle_token_destination, height, change_address) ==
  LET log == <<"get_local_oracle_datapoint_box">> IN
  IF oracle_src.kind = "Err" THEN Outcome(from_err("StageError", oracle_src), log)
  ELSE IF oracle_src.val = None THEN Outcome(Err(<<"NoLocalDatapointBox">>), log)
  ELSE
    LET in_oracle_box == oracle_src.val
        num_reward_tokens == OracleBox_reward_token(in_oracle_box).amount
    IN
    IF oracle_token_destination.kind # "P2Pk"
      THEN Outcome(Err(<<"IncorrectDestinationAddress">>), log)
    ELSE IF num_reward_tokens <= 1
      THEN Outcome(Err(<<"IncorrectNumberOfRewardTokensInOracleBox",
                         num_reward_tokens>>), log)
    ELSE
      LET cand == transfer_output_candidate(in_oracle_box,
                                            oracle_token_destination.pk, height)
      IN IF cand.kind = "Err"
           THEN Outcome(from_err("ErgoBoxCandidateBuilder", cand), log)
         ELSE transfer_assemble_tx(in_oracle_box, cand.val, wallet_src, height,
                                   change_address, log)

build_transfer_oracle_token_tx(oracle_src, wallet_src, oracle_token_destination, height, change_address) ==
  LET log == <<"get_local_oracle_datapoint_box">> IN
  IF oracle_src.kind = "Err" THEN Outcome(from_err("StageError", oracle_src), log)
  ELSE IF oracle_src.val = None THEN Outcome(Err(<<"NoLocalDatapointBox">>), log)
  ELSE
    LET in_oracle_box == oracle_src.val
        num_reward_tokens == OracleBox_reward_token(in_oracle_box).amount
    IN
    IF num_reward_tokens <= 1
      THEN Outcome(Err(<<"IncorrectNumberOfRewardTokensInOracleBox",
                         num_reward_tokens>>), log)
    ELSE IF oracle_token_destination.kind = "P2Pk" THEN
      LET cand == transfer_output_candidate(in_oracle_box,
                                            oracle_token_destination.pk, height)
      IN IF cand.kind = "Err"
           THEN Outcome(from_err("ErgoBoxCandidateBuilder", cand), log)
         ELSE transfer_assemble_tx(in_oracle_box, cand.val, wallet_src, height,
                                   change_address, log)
    ELSE Outcome(Err(<<"IncorrectDestinationAddress">>), log)

(***************************************************************************)
(* cli_commands/transfer_oracle_token.rs: transfer_oracle_token, one       *)
(* action per blocking step. A line of input is a sequence of characters.  *)
(***************************************************************************)
P2Pk(pk) == [kind |-> "P2Pk", pk |-> pk]

P2S(script) == [kind |-> "P2S", pk |-> script]

\* AddressEncoder::unchecked_parse_network_address_from_str
unchecked_parse_network_address_from_str(str) ==
  CASE str = "9fDestKeyB" -> Ok([network |-> "Mainnet", address |-> P2Pk("pkB")])
    [] str = "9hChangeKeyC" -> Ok([network |-> "Mainnet", address |-> P2Pk("pkC")])
    [] str = "3WwScriptAddr" -> Ok([network |-> "Testnet", address |-> P2S("script1")])
    [] OTHER -> Err(<<"InvalidBase58">>)

IsWhitespace(c) == c \in {" ", "\n", "\r", "\t"}

RECURSIVE trim_start(_)
trim_start(str) ==
  IF str # <<>> /\ IsWhitespace(Head(str)) THEN trim_start(Tail(str)) ELSE str

RECURSIVE trim_end(_)
trim_end(str) ==
  IF str # <<>> /\ IsWhitespace(str[Len(str)])
    THEN trim_end(SubSeq(str, 1, Len(str) - 1)) ELSE str

\* str::trim
trim(str) == trim_end(trim_start(str))

YES == <<"Y", "E", "S">>

NoLocals ==
  [rewards_destination |-> None, change_address |-> None, network_prefix |-> None,
   height |-> None, unsigned_tx |-> None, input |-> None,
   prompted |-> FALSE, submitted |-> 0]

(***************************************************************************)
(* The deployment and the inputs the calls are made with.                  *)
(***************************************************************************)
Some(x) == [ty |-> "Some", v |-> x]

\* PoolBoxWrapperInputs of the deployment: script constants 1 and 2 hold the
\* refresh and update NFT ids
PoolInputs ==
  [contract_inputs |-> [refresh_nft_index |-> 1, update_nft_index |-> 2,
                        refresh_nft_token_id |-> "refresh_nft",
                        update_nft_token_id |-> "update_nft"],
   pool_nft_token_id |-> "pool_nft",
   reward_token_id |-> "reward_token"]

PoolTree ==
  ErgoTree(TRUE, <<Const("Int", 4), TokenIdConst("refresh_nft"),
                   TokenIdConst("update_nft")>>)

\* scripts a candidate pool box may carry
Trees ==
  { PoolTree,
    ErgoTree(FALSE, <<>>),
    ErgoTree(TRUE, <<Const("Int", 4)>>),
    ErgoTree(TRUE, <<Const("Int", 4), TokenIdConst("refresh_nft")>>),
    ErgoTree(TRUE, <<Const("Int", 4), Const("Long", 9), TokenIdConst("update_nft")>>),
    ErgoTree(TRUE, <<Const("Int", 4), TokenIdConst("refresh_nft"), Const("Long", 9)>>),
    ErgoTree(TRUE, <<Const("Int", 4), TokenIdConst("other_token"),
                     TokenIdConst("update_nft")>>),
    ErgoTree(TRUE, <<Const("Int", 4), TokenIdConst("refresh_nft"),
                     TokenIdConst("other_token")>>),
    ErgoTree(TRUE, <<Const("Int", 4), TokenIdConst("update_nft"),
                     TokenIdConst("refresh_nft")>>) }

TokenChoices ==
  {Tok(id, a) : id \in {"pool_nft", "reward_token"}, a \in 1..MaxAmount}
  \cup {Tok("other_token", 1)}

\* Option<BoxTokens>: no tokens, or a non-empty sequence of them
TokenLists ==
  {None} \cup {Some(t) : t \in UNION {[1..n -> TokenChoices] : n \in 1..MaxTokens}}

\* registers are densely packed: R5 is present only when R4 is
RegisterPairs ==
  {<<None, None>>}
  \cup {<<r4, r5>> : r4 \in {Const("Long", 100), Const("Int", 100)},
                    r5 \in {None, Const("Int", 7), Const("Long", 7)}}

ErgoBox(id, value, tree, height, tokens, r4, r5, r6) ==
  [box_id |-> id, value |-> value, ergo_tree |-> tree, creation_height |-> height,
   tokens |-> tokens, R4 |-> r4, R5 |-> r5, R6 |-> r6]

\* a candidate once its transaction is confirmed: the same fields under a
\* box id
ErgoBox_from_box_candidate(c, id) ==
  ErgoBox(id, c.value, c.ergo_tree, c.creation_height,
          IF c.tokens = <<>> THEN None ELSE Some(c.tokens), c.R4, c.R5, c.R6)

\* the boxes PoolBoxWrapper::new is called with
CandidatePoolBoxes ==
  {ErgoBox("pool_box_id", 1000000000, tree, 799990, toks, regs[1], regs[2], None) :
     tree \in Trees, toks \in TokenLists, regs \in RegisterPairs}

\* epoch counters a validated pool box may hold: any i32
EpochValues == {I32Min, -1, 0, 5, I32Max - 1, I32Max}

\* what the pool box source returns: an error, or a validated pool box
PoolBoxSources ==
  {Err(<<"NoPoolBox">>)}
  \cup {r \in {PoolBoxWrapper_new(
                 ErgoBox("pool_box_id", 1000000000, PoolTree, 799990,
                         Some(<<Tok("pool_nft", 1), Tok("reward_token", 50)>>),
                         Const("Long", 100), Const("Int", e), None),
                 PoolInputs) : e \in EpochValues} : r.kind = "Ok"}

OracleTree == ErgoTree(TRUE, <<TokenIdConst("pool_nft")>>)

\* a validated oracle box: OracleBoxWrapper::Posted or ::Collected
OracleBoxWrapper(variant, value, reward, rate, epoch) ==
  [variant |-> variant,
   contract |-> [ergo_tree |-> OracleTree],
   ergo_box |-> ErgoBox("oracle_box_id", value, OracleTree, 799995,
                        Some(<<Tok("oracle_token", 1), Tok("reward_token", reward)>>),
                        Const("GroupElement", "pkA"),
                        IF variant = "Posted" THEN Const("Int", epoch) ELSE None,
                        IF variant = "Posted" THEN Const("Long", rate) ELSE None)]

\* box values: one too small to pay for the output box, one ample
OracleBoxValues == {50000, 2000000}

PostedOracleBoxes ==
  {OracleBoxWrapper("Posted", v, n, r, e) :
     v \in OracleBoxValues, n \in 0..MaxReward, r \in {100, -3}, e \in {5, -1}}

CollectedOracleBoxes ==
  {OracleBoxWrapper("Collected", v, n, 0, 0) :
     v \in OracleBoxValues, n \in 0..MaxReward}

\* publish reads rate() and public_key() of the box: the posted shape
PublishOracleSources ==
  {Err(<<"NoLocalDatapointBox">>)}
  \cup {Ok(w) : w \in {x \in PostedOracleBoxes : x.ergo_box.R5.v = 5}}

\* transfer: Result<Option<OracleBoxWrapper>>
TransferOracleSources ==
  {Err(<<"NodeError">>), Ok(None)}
  \cup {Ok(w) : w \in PostedOracleBoxes \cup CollectedOracleBoxes}

WalletBox(id, value) ==
  ErgoBox(id, value, "pkA_script", 799000, None, None, None, None)

\* the node's unspent boxes; the last entry is a source that (wrongly) lists
\* the oracle box itself
WalletBoxes ==
  {WalletBox("w1", 600000), WalletBox("w2", 1000000),
   WalletBox("oracle_box_id", 2000000)}

IsInjective(q) == \A i, j \in 1..Len(q) : q[i] = q[j] => i = j

WalletSources ==
  {Err(<<"NodeError">>)}
  \cup {Ok(q) : q \in {x \in UNION {[1..n -> WalletBoxes] : n \in 0..MaxWallet} :
                         IsInjective(x)}}

Heights == {800000, 800001}

PublishReadings == {40, 99, 100, 101, 200, 250}

Destinations == {P2Pk("pkB"), P2S("script1")}

ChangeAddress == P2Pk("pkC")

\* rates and readings of the whole i64 range: small ones, and ones above 2^53
\* around a rate, its 0.49% caps, its half and its double
WideOffsets == {wide_from_int(d) : d \in 0..MaxWideOffset}

WideRateBase == <<18645, 1113, 17829, 262>>

WideLowerCapBase == <<5520, 3713, 8442, 261>>

WideUpperCapBase == <<31767, 31281, 27215, 263>>

WideRates ==
  {wide_from_int(n) : n \in {1, 50, 99, 100, 101, 200, 204, 205, 995, 1000, 1005, 2000}}
  \cup {wide_add(WideRateBase, d) : d \in WideOffsets}

WideReadings ==
  WideRates
  \cup {wide_add(WideLowerCapBase, d) : d \in WideOffsets}
  \cup {wide_add(WideUpperCapBase, d) : d \in WideOffsets}
  \cup {wide_add(wide_div_limb(WideRateBase, 2), d) : d \in WideOffsets}
  \cup {wide_add(wide_mul_limb(WideRateBase, 2), d) : d \in WideOffsets}
  \cup {WideI64Max}

PolicyValues ==
  (-MaxDatapoint..MaxDatapoint)
  \cup {50, 99, 100, 101, 199, 200, 201, 250, 499, 500, 501, 1999, 2000, 2001}
  \cup (990..1010)
  \cup {-2000, -1005, -1000, -995, -500, -200, -101, -100, -99, -50}

InputLines ==
  { <<"Y", "E", "S", "\n">>, <<"Y", "E", "S">>,
    <<" ", "Y", "E", "S", " ", "\r", "\n">>, <<"\t", "Y", "E", "S", "\n">>,
    <<"y", "e", "s", "\n">>, <<"Y", "\n">>, <<"\n">>, <<>>,
    <<"Y", "E", "S", "!", "\n">>, <<"Y", " ", "E", "S", "\n">>,
    <<"N", "O", "\n">> }

DestinationStrings == {"9fDestKeyB", "3WwScriptAddr", "not-an-address"}

\* get_wallet_status(): a node error, or the status with its change address
WalletStatuses ==
  {Err(<<"NodeError">>), Ok(None), Ok(Some("9hChangeKeyC")), Ok(Some("bad-change"))}

\* the rate an oracle has published before the readings start, and the
\* reading its data source stays at
FeedRates == (1..MaxFeedRate) \cup {100, 204, 205, 1000}

FeedReadings ==
  (1..(2 * MaxFeedRate))
  \cup {50, 100, 101, 150, 200, 204, 205, 206, 408, 410, 500, 995, 1005, 2000}

\* the pool box and the wallet of the oracle while it publishes
FeedPoolBox ==
  PoolBoxWrapper_new(
    ErgoBox("pool_box_id", 1000000000, PoolTree, 799990,
            Some(<<Tok("pool_nft", 1), Tok("reward_token", 50)>>),
            Const("Long", 100), Const("Int", 5), None),
    PoolInputs)

\* PoolContractParameters
PoolContractParameters(p2s, refresh_nft_index, refresh_nft_token_id, update_nft_index, update_nft_token_id) ==
  [p2s |-> p2s,
   refresh_nft_index |-> refresh_nft_index,
   refresh_nft_token_id |-> refresh_nft_token_id,
   update_nft_index |-> update_nft_index,
   update_nft_token_id |-> update_nft_token_id]

\* the script template: constants 1 and 2 are the slots of the two ids
TemplateTree ==
  ErgoTree(TRUE, <<Const("Int", 4), TokenIdConst("placeholder"),
                   TokenIdConst("placeholder")>>)

\* p2s addresses by what address().script() gives: a script, or a parsing
\* error
P2SAddresses ==
  {[script |-> Ok(t)] :
     t \in {TemplateTree, PoolTree,
            ErgoTree(TRUE, <<Const("Int", 4), TokenIdConst("placeholder"),
                             Const("Long", 9)>>),
            ErgoTree(TRUE, <<Const("Int", 4), TokenIdConst("placeholder")>>),
            ErgoTree(FALSE, <<>>)}}
  \cup {[script |-> Err(<<"InvalidHeader">>)]}

NftIds == {"refresh_nft", "update_nft"}

\* the parameters PoolContract::new is called with
NewParameterSets ==
  {PoolContractParameters(a, ri, rid, ui, uid) :
     a \in P2SAddresses, ri \in 0..MaxIndex, rid \in NftIds,
     ui \in 0..MaxIndex, uid \in NftIds}

\* the parameters PoolContract::from_ergo_tree is called with
VerifyParameterSets == {p \in NewParameterSets : p.p2s = [script |-> Ok(TemplateTree)]}

\* contracts as callers hold them: the parameters, and the contract that
\* PoolContract::new or PoolContract::from_ergo_tree returned for them
BoundContracts ==
  {[parameters |-> p, contract |-> PoolContract_new(p).val] :
     p \in {q \in NewParameterSets : PoolContract_new(q).kind = "Ok"}}
  \cup {[parameters |-> x[2], contract |-> PoolContract_from_ergo_tree(x[1], x[2]).val] :
          x \in {y \in Trees \X VerifyParameterSets :
                   PoolContract_from_ergo_tree(y[1], y[2]).kind = "Ok"}}

\* datapoints: an i64 is carried unchanged from the argument to the register
\* and back
Datapoints == {I32Min, -1, 0, 100, I32Max}

PoolNftTokens == {Tok("pool_nft", a) : a \in 1..MaxAmount} \cup {Tok("other_token", 1)}

RewardTokens == {Tok("reward_token", a) : a \in 1..MaxAmount} \cup {Tok("other_token", 1)}

\* box values: one too small to pay for the pool box, one ample
PoolBoxValues == {50000, 1000000000}

(***************************************************************************)
(* The state machine: a caller that makes one call at a time.              *)
(***************************************************************************)
NoResult == [kind |-> "None", err |-> <<>>, val |-> None]

Init ==
  /\ pc = "idle"
  /\ fn = "none"
  /\ args = NoArgs
  /\ result = NoResult
  /\ calls = <<>>
  /\ locals = NoLocals

\* the call has returned (or aborted); the caller goes on
Return ==
  /\ pc = "returned"
  /\ pc' = "idle"
  /\ fn' = "none"
  /\ args' = NoArgs
  /\ result' = NoResult
  /\ calls' = <<>>
  /\ locals' = NoLocals

Call_PoolBoxWrapper_new ==
  /\ pc = "idle"
  /\ \E b \in CandidatePoolBoxes :
       /\ fn' = "PoolBoxWrapper_new"
       /\ args' = [b |-> b, inputs |-> PoolInputs]
       /\ result' = PoolBoxWrapper_new(b, PoolInputs)
  /\ pc' = "returned"
  /\ calls' = <<>>
  /\ UNCHANGED locals

Call_PoolContract_new ==
  /\ pc = "idle"
  /\ \E parameters \in NewParameterSets :
       /\ fn' = "PoolContract_new"
       /\ args' = [parameters |-> parameters]
       /\ result' = PoolContract_new(parameters)
  /\ pc' = "returned"
  /\ calls' = <<>>
  /\ UNCHANGED locals

Call_PoolContract_from_ergo_tree ==
  /\ pc = "idle"
  /\ \E ergo_tree \in Trees, parameters \in VerifyParameterSets :
       /\ fn' = "PoolContract_from_ergo_tree"
       /\ args' = [ergo_tree |-> ergo_tree, parameters |-> parameters]
       /\ result' = PoolContract_from_ergo_tree(ergo_tree, parameters)
  /\ pc' = "returned"
  /\ calls' = <<>>
  /\ UNCHANGED locals

\* a caller builds a pool box candidate with a contract it has bound
Call_make_pool_box_candidate ==
  /\ pc = "idle"
  /\ \E bound \in BoundContracts, datapoint \in Datapoints,
        epoch_counter \in EpochValues, pool_nft_token \in PoolNftTokens,
        reward_token \in RewardTokens, value \in PoolBoxValues :
       LET r == make_pool_box_candidate(bound.contract, datapoint, epoch_counter,
                                        pool_nft_token, reward_token, value, 800000)
       IN /\ fn' = "make_pool_box_candidate"
          /\ args' = [parameters |-> bound.parameters, contract |-> bound.contract,
                      datapoint |-> datapoint, epoch_counter |-> epoch_counter,
                      pool_nft_token |-> pool_nft_token,
                      reward_token |-> reward_token, value |-> value,
                      creation_height |-> 800000]
          /\ result' = r
          /\ pc' = IF r.kind = "Ok" THEN "candidate_built" ELSE "returned"
  /\ calls' = <<>>
  /\ UNCHANGED locals

\* the candidate is confirmed as a box and that box is validated
Validate_confirmed_candidate ==
  /\ pc = "candidate_built"
  /\ LET b == ErgoBox_from_box_candidate(result.val, "new_pool_box_id") IN
       /\ fn' = "PoolBoxWrapper_new"
       /\ args' = [b |-> b, inputs |-> PoolInputs]
       /\ result' = PoolBoxWrapper_new(b, PoolInputs)
  /\ locals' = [built_with |-> args]
  /\ pc' = "returned"
  /\ calls' = <<>>

\* an oracle that publishes epoch after epoch: it starts with its previously
\* published box and a reading that stays the same
FeedInit ==
  /\ pc = "publishing"
  /\ fn = "build_publish_datapoint_action"
  /\ \E p \in FeedRates, v \in FeedReadings :
       /\ args = [new_datapoint |-> v, first_rate |-> p]
       /\ locals = [in_oracle_box |-> OracleBoxWrapper("Posted", 2000000, 2, p, 5),
                    publishes |-> 0]
  /\ result = NoResult
  /\ calls = <<>>

\* one publish, confirmed: output 0 of the transaction (lines 59-74) is the
\* oracle box the next publish reads. The pool box, the height and the box
\* id are kept the same from round to round: they have no part in the rate.
\* publishes counts the publishes up to CountedPublishes.
Publish_next_epoch ==
  /\ pc = "publishing"
  /\ LET new_epoch_counter ==
           u32_as_i32(u32_add_one(PoolBox_epoch_counter(FeedPoolBox.val), TRUE).val)
         built == ErgoBoxCandidateBuilder_build(
                    publish_output_candidate(locals.in_oracle_box, new_epoch_counter,
                                             800000, args.new_datapoint))
     IN /\ built.kind = "Ok"
        /\ result' = built
        /\ locals' = [in_oracle_box |->
                        [locals.in_oracle_box EXCEPT
                           !.ergo_box = ErgoBox_from_box_candidate(
                                          built.val, "oracle_box_id")],
                      publishes |-> IF locals.publishes < CountedPublishes
                                      THEN locals.publishes + 1
                                      ELSE locals.publishes]
  /\ UNCHANGED <<pc, fn, args, calls>>

Call_compute_new_datapoint ==
  /\ pc = "idle"
  /\ \E datapoint \in PolicyValues, old_datapoint \in PolicyValues :
       /\ fn' = "compute_new_datapoint"
       /\ args' = [datapoint |-> datapoint, old_datapoint |-> old_datapoint]
       /\ result' = Ok(compute_new_datapoint(datapoint, old_datapoint))
  /\ pc' = "returned"
  /\ calls' = <<>>
  /\ UNCHANGED locals

Call_compute_new_datapoint_wide ==
  /\ pc = "idle"
  /\ \E datapoint \in WideReadings, old_datapoint \in WideRates :
       /\ fn' = "compute_new_datapoint_wide"
       /\ args' = [datapoint |-> datapoint, old_datapoint |-> old_datapoint]
       /\ result' = Ok(compute_new_datapoint_wide(datapoint, old_datapoint))
  /\ pc' = "returned"
  /\ calls' = <<>>
  /\ UNCHANGED locals

Call_build_publish_datapoint_action ==
  /\ pc = "idle"
  /\ \E pool_src \in PoolBoxSources, oracle_src \in PublishOracleSources,
        wallet_src \in WalletSources, height \in Heights,
        new_datapoint \in PublishReadings, overflow_checks \in BOOLEAN :
       LET o == build_publish_datapoint_action(pool_src, oracle_src, wallet_src,
                  height, ChangeAddress, new_datapoint, overflow_checks)
       IN /\ fn' = "build_publish_datapoint_action"
          /\ args' = [pool_src |-> pool_src, oracle_src |-> oracle_src,
                      wallet_src |-> wallet_src, height |-> height,
                      change_address |-> ChangeAddress,
                      new_datapoint |-> new_datapoint,
                      overflow_checks |-> overflow_checks]
          /\ result' = o.res
          /\ calls' = o.calls
  /\ pc' = "returned"
  /\ UNCHANGED locals

Call_build_transfer_oracle_token_tx ==
  /\ pc = "idle"
  /\ \E oracle_src \in TransferOracleSources, wallet_src \in WalletSources,
        dest \in Destinations, height \in Heights :
       LET o == build_transfer_oracle_token_tx(oracle_src, wallet_src, dest,
                                               height, ChangeAddress)
       IN /\ fn' = "build_transfer_oracle_token_tx"
          /\ args' = [oracle_src |-> oracle_src, wallet_src |-> wallet_src,
                      oracle_token_destination |-> dest, height |-> height,
                      change_address |-> ChangeAddress]
          /\ result' = o.res
          /\ calls' = o.calls
  /\ pc' = "returned"
  /\ UNCHANGED locals

\* lines 68-69: parse the destination
T_ParseDestination ==
  /\ pc = "idle"
  /\ \E str \in DestinationStrings :
       LET a == unchecked_parse_network_address_from_str(str) IN
       /\ fn' = "transfer_oracle_token"
       /\ args' = [rewards_destination_str |-> str]
       /\ IF a.kind = "Err"
            THEN /\ result' = from_err("AddressEncoder", a)
                 /\ pc' = "returned"
                 /\ locals' = NoLocals
            ELSE /\ result' = NoResult
                 /\ pc' = "get_wallet_status"
                 /\ locals' = [NoLocals EXCEPT !.rewards_destination = Some(a.val)]
  /\ calls' = <<>>

\* lines 71-78: the node's change address
T_WalletStatus ==
  /\ pc = "get_wallet_status"
  /\ \E status \in WalletStatuses :
       IF status.kind = "Err"
         THEN /\ result' = from_err("Node", status)
              /\ pc' = "returned"
              /\ UNCHANGED locals
       ELSE IF status.val = None
         THEN /\ result' = Err(<<"NoChangeAddressSetInNode">>)
              /\ pc' = "returned"
              /\ UNCHANGED locals
       ELSE
         LET a == unchecked_parse_network_address_from_str(status.val.v) IN
         IF a.kind = "Err"
           THEN /\ result' = from_err("AddressEncoder", a)
                /\ pc' = "returned"
                /\ UNCHANGED locals
           ELSE /\ result' = NoResult
                /\ pc' = "current_block_height"
                /\ locals' = [locals EXCEPT
                                !.change_address = Some(a.val.address),
                                !.network_prefix = Some(a.val.network)]
  /\ calls' = Append(calls, "get_wallet_status")
  /\ UNCHANGED <<fn, args>>

\* line 83: the height, read before the builder is called
T_BlockHeight ==
  /\ pc = "current_block_height"
  /\ \E h \in {Err(<<"NodeError">>)} \cup {Ok(x) : x \in Heights} :
       IF h.kind = "Err"
         THEN /\ result' = from_err("Node", h)
              /\ pc' = "returned"
              /\ UNCHANGED locals
         ELSE /\ result' = NoResult
              /\ pc' = "build"
              /\ locals' = [locals EXCEPT !.height = Some(h.val)]
  /\ calls' = Append(calls, "current_block_height")
  /\ UNCHANGED <<fn, args>>

\* lines 79-85: build the unsigned transaction
T_Build ==
  /\ pc = "build"
  /\ \E oracle_src \in TransferOracleSources, wallet_src \in WalletSources :
       LET o == build_transfer_oracle_token_tx(
                  oracle_src, wallet_src, locals.rewards_destination.v.address,
                  locals.height.v, locals.change_address.v)
       IN /\ calls' = calls \o o.calls
          /\ IF o.res.kind = "Err"
               THEN /\ result' = o.res
                    /\ pc' = "returned"
                    /\ UNCHANGED locals
               ELSE /\ result' = NoResult
                    /\ pc' = "prompt"
                    /\ locals' = [locals EXCEPT !.unsigned_tx = Some(o.res.val)]
  /\ UNCHANGED <<fn, args>>

\* lines 87-90: ask the operator
T_Prompt ==
  /\ pc = "prompt"
  /\ pc' = "read_line"
  /\ locals' = [locals EXCEPT !.prompted = TRUE]
  /\ calls' = Append(calls, "println")
  /\ UNCHANGED <<fn, args, result>>

\* lines 91-92: read the answer
T_ReadLine ==
  /\ pc = "read_line"
  /\ \E r \in {Err(<<"BrokenPipe">>)} \cup {Ok(line) : line \in InputLines} :
       IF r.kind = "Err"
         THEN /\ result' = from_err("Io", r)
              /\ pc' = "returned"
              /\ UNCHANGED locals
         ELSE /\ result' = NoResult
              /\ pc' = "decide"
              /\ locals' = [locals EXCEPT !.input = Some(r.val)]
  /\ calls' = Append(calls, "read_line")
  /\ UNCHANGED <<fn, args>>

\* lines 93-102: submit on YES, else abort
\* faulty variant: the answer is not compared with YES
T_Decide_any_answer ==
  /\ pc = "decide"
  /\ \E r \in {Ok("tx_id"), Err(<<"NodeError">>)} :
       /\ calls' = Append(calls, "sign_and_submit_transaction")
       /\ locals' = [locals EXCEPT !.submitted = @ + 1]
       /\ result' = IF r.kind = "Err" THEN from_err("Node", r) ELSE Ok(None)
  /\ pc' = "returned"
  /\ UNCHANGED <<fn, args>>

T_Decide ==
  /\ pc = "decide"
  /\ IF trim(locals.input.v) = YES
       THEN \E r \in {Ok("tx_id"), Err(<<"NodeError">>)} :
              /\ calls' = Append(calls, "sign_and_submit_transaction")
              /\ locals' = [locals EXCEPT !.submitted = @ + 1]
              /\ result' = IF r.kind = "Err" THEN from_err("Node", r) ELSE Ok(None)
       ELSE /\ calls' = calls
            /\ UNCHANGED locals
            /\ result' = Ok(None)
  /\ pc' = "returned"
  /\ UNCHANGED <<fn, args>>

transfer_oracle_token ==
  \/ T_ParseDestination
  \/ T_WalletStatus
  \/ T_BlockHeight
  \/ T_Build
  \/ T_Prompt
  \/ T_ReadLine
  \/ T_Decide

(***************************************************************************)
(* Specifications.                                                         *)
(***************************************************************************)
\* the action builders and the transfer command
Next ==
  \/ Call_build_publish_datapoint_action
  \/ Call_build_transfer_oracle_token_tx
  \/ transfer_oracle_token
  \/ Return

Spec == Init /\ [][Next]_vars

\* the pool box validator
NextPool == Call_PoolBoxWrapper_new \/ Return

SpecPool == Init /\ [][NextPool]_vars

\* the contract binder and the pool box builder
NextContract ==
  \/ Call_PoolContract_new
  \/ Call_PoolContract_from_ergo_tree
  \/ Call_make_pool_box_candidate
  \/ Validate_confirmed_candidate
  \/ Return

SpecContract == Init /\ [][NextContract]_vars

\* an oracle publishing epoch after epoch; its main loop publishes in every
\* epoch, so a publish that is due is eventually made
NextFeed == Publish_next_epoch

SpecFeed == FeedInit /\ [][NextFeed]_vars /\ WF_vars(Publish_next_epoch)

\* the price policy
NextPolicy == Call_compute_new_datapoint \/ Return

SpecPolicy == Init /\ [][NextPolicy]_vars

\* the price policy on the whole positive i64 range
NextWide == Call_compute_new_datapoint_wide \/ Return

SpecWide == Init /\ [][NextWide]_vars

(***************************************************************************)
(* Claims about the pool box validator (SpecPool).                         *)
(***************************************************************************)
InPoolCall == pc = "returned" /\ fn = "PoolBoxWrapper_new"

\* the script embeds id as a token-id constant at index
script_embeds(tree, index, id) ==
  /\ tree.parsed
  /\ index + 1 <= Len(tree.constants)
  /\ tree.constants[index + 1] = TokenIdConst(id)

script_embeds_ids(b, inputs) ==
  /\ script_embeds(b.ergo_tree, inputs.contract_inputs.refresh_nft_index,
                   inputs.contract_inputs.refresh_nft_token_id)
  /\ script_embeds(b.ergo_tree, inputs.contract_inputs.update_nft_index,
                   inputs.contract_inputs.update_nft_token_id)

registers_well_typed(b) == b.R4 # None /\ b.R4.ty = "Long" /\ b.R5 # None /\ b.R5.ty = "Int"

\* the pool-box shape as the data model states it: exactly two tokens, the
\* pool NFT with amount 1 and the reward token
exact_pool_shape(b, inputs) ==
  /\ b.tokens # None
  /\ Len(b.tokens.v) = 2
  /\ b.tokens.v[1] = Tok(inputs.pool_nft_token_id, 1)
  /\ b.tokens.v[2].token_id = inputs.reward_token_id
  /\ registers_well_typed(b)
  /\ script_embeds_ids(b, inputs)

\* the shape the validator examines: the ids of token slots 0 and 1
checked_pool_shape(b, inputs) ==
  /\ b.tokens # None
  /\ Len(b.tokens.v) >= 2
  /\ b.tokens.v[1].token_id = inputs.pool_nft_token_id
  /\ b.tokens.v[2].token_id = inputs.reward_token_id
  /\ registers_well_typed(b)
  /\ script_embeds_ids(b, inputs)

first_unmet_spec_order(b, inputs) ==
  IF b.tokens = None THEN <<"NoTokens">>
  ELSE IF b.tokens.v[1].token_id # inputs.pool_nft_token_id THEN <<"UnknownPoolNftId">>
  ELSE IF Len(b.tokens.v) < 2 THEN <<"NoRewardToken">>
  ELSE IF b.R4 = None \/ b.R4.ty # "Long" THEN <<"NoDataPoint">>
  ELSE IF b.R5 = None \/ b.R5.ty # "Int" THEN <<"NoEpochCounter">>
  ELSE <<"PoolContractError">>
       \o PoolContract_from_ergo_tree(b.ergo_tree, inputs.contract_inputs).err

\* the first unmet requirement, in the order the code examines them
first_unmet_code_order(b, inputs) ==
  IF b.tokens = None THEN <<"NoTokens">>
  ELSE IF b.tokens.v[1].token_id # inputs.pool_nft_token_id THEN <<"UnknownPoolNftId">>
  ELSE IF b.R4 = None \/ b.R4.ty # "Long" THEN <<"NoDataPoint">>
  ELSE IF b.R5 = None \/ b.R5.ty # "Int" THEN <<"NoEpochCounter">>
  ELSE IF Len(b.tokens.v) < 2 THEN <<"NoRewardToken">>
  ELSE IF b.tokens.v[2].token_id # inputs.reward_token_id
    THEN <<"UnknownRewardTokenId">>
  ELSE <<"PoolContractError">>
       \o PoolContract_from_ergo_tree(b.ergo_tree, inputs.contract_inputs).err

\* C2 as stated: a rejection names the first unmet requirement in the order
\* NoTokens, UnknownPoolNftId, NoRewardToken, NoDataPoint, NoEpochCounter, and
\* otherwise the binder's error wrapped as PoolContractError.
C2_ErrorInSpecOrder ==
  InPoolCall /\ result.kind # "Ok" =>
    /\ result.kind = "Err"
    /\ result.err = first_unmet_spec_order(args.b, args.inputs)

\* C2 amended: a rejection names the first unmet requirement in the order
\* NoTokens, UnknownPoolNftId, NoDataPoint, NoEpochCounter, NoRewardToken,
\* UnknownRewardTokenId (slot 1 holds another id); if all of these are met, a
\* script that does not parse aborts the call, and any other script failure
\* is the binder's own error wrapped as PoolContractError.
C2_ErrorInCodeOrder ==
  InPoolCall /\ result.kind # "Ok" =>
    LET b == args.b
        slots_and_registers_met ==
          /\ b.tokens # None
          /\ Len(b.tokens.v) >= 2
          /\ b.tokens.v[1].token_id = args.inputs.pool_nft_token_id
          /\ b.tokens.v[2].token_id = args.inputs.reward_token_id
          /\ registers_well_typed(b)
    IN IF slots_and_registers_met /\ ~b.ergo_tree.parsed
         THEN result.kind = "Panic"
         ELSE /\ result.kind = "Err"
              /\ result.err = first_unmet_code_order(b, args.inputs)

\* C2 witness: slot 0 is right, slot 1 and R4 are missing, and the error is
\* NoDataPoint
C2_Witness ==
  /\ InPoolCall
  /\ args.b.tokens = Some(<<Tok("pool_nft", 1)>>)
  /\ args.b.R4 = None
  /\ result = Err(<<"NoDataPoint">>)

(***************************************************************************)
(* Claims about the price policy (SpecPolicy).                             *)
(***************************************************************************)
InPolicyCall == pc = "returned" /\ fn = "compute_new_datapoint"

Abs(x) == IF x < 0 THEN -x ELSE x

\* new/old > n/m and new/old < n/m for old # 0, m > 0, in integers
ratio_above(new, old, n, m) == IF old > 0 THEN new * m > n * old ELSE new * m < n * old

ratio_below(new, old, n, m) == IF old > 0 THEN new * m < n * old ELSE new * m > n * old

\* t is old * n / 10000 truncated toward zero
is_truncation(t, old, n) ==
  /\ 10000 * Abs(t) <= n * Abs(old)
  /\ n * Abs(old) < 10000 * (Abs(t) + 1)
  /\ t * old >= 0

\* the five rules, in priority order
follows_policy(r, new, old) ==
  IF old = 0 THEN r = new
  ELSE IF ratio_above(new, old, 2, 1) THEN r = new
  ELSE IF ratio_below(new, old, 1, 2) THEN r = new
  ELSE IF ratio_below(new, old, 9951, 10000) THEN is_truncation(r, old, 9951)
  ELSE IF ratio_above(new, old, 10049, 10000) THEN is_truncation(r, old, 10049)
  ELSE r = new

InPublishCall == pc = "returned" /\ fn = "build_publish_datapoint_action"

\* C4: on success the new oracle box (output 0) has the script and value of
\* the input oracle box, the supplied height, the input's tokens
\* [oracle token, reward token] unchanged, R4 = the input's public key and
\* R6 = compute_new_datapoint(new_datapoint, rate of the input box).
C4_PublishedOracleBox ==
  InPublishCall /\ result.kind = "Ok" =>
    LET in == args.oracle_src.val.ergo_box
        out == result.val.outputs[1]
    IN /\ out.ergo_tree = in.ergo_tree
       /\ out.value = in.value
       /\ out.creation_height = args.height
       /\ out.tokens = <<in.tokens.v[1], in.tokens.v[2]>>
       /\ Len(in.tokens.v) = 2
       /\ out.R4 = in.R4
       /\ out.R6 = Const("Long", compute_new_datapoint(args.new_datapoint, in.R6.v))

\* C4 witness: the reading 101 against the rate 100 is published as 100
C4_Witness ==
  /\ InPublishCall
  /\ result.kind = "Ok"
  /\ args.new_datapoint = 101
  /\ args.oracle_src.val.ergo_box.R6.v = 100
  /\ result.val.outputs[1].R6.v = 100

\* the call got as far as computing the new epoch counter (line 65)
reaches_epoch_computation ==
  /\ args.pool_src.kind = "Ok"
  /\ args.oracle_src.kind = "Ok"
  /\ args.oracle_src.val.ergo_box.tokens.v[2].amount # 0

\* C5: for every validated pool box the epoch counter written to R5 of the
\* new oracle box is the pool's epoch counter plus one, strictly greater than
\* it; the computation never wraps and never aborts.
C5_EpochIsPoolEpochPlusOne ==
  InPublishCall /\ reaches_epoch_computation =>
    /\ result.kind # "Panic"
    /\ result.kind = "Ok" =>
         LET pool_epoch == args.pool_src.val.ergo_box.R5.v
             new_epoch == result.val.outputs[1].R5.v
         IN /\ new_epoch > pool_epoch
            /\ pool_epoch < I32Max
            /\ new_epoch = pool_epoch + 1

(***************************************************************************)
(* Claims about the transactions the two builders return (Spec).           *)
(***************************************************************************)
InTransferCall == pc = "returned" /\ fn = "build_transfer_oracle_token_tx"

InBuilderCall == InPublishCall \/ InTransferCall

Contains(q, x) == \E i \in 1..Len(q) : q[i] = x

\* inputs 2.. are the first k wallet boxes, the shortest prefix covering fee
wallet_inputs_selected(inputs, wallet, fee) ==
  \E k \in 1..Len(wallet) :
    /\ Len(inputs) = k + 1
    /\ \A i \in 1..k : inputs[i + 1].box_id = wallet[i].box_id
    /\ sum_values(SubSeq(wallet, 1, k)) >= fee
    /\ sum_values(SubSeq(wallet, 1, k - 1)) < fee

\* C6: in every transaction either builder returns, the oracle box is input 0
\* with the selected wallet boxes after it, the new oracle box is output 0,
\* the oracle input carries the context extension {0 -> 0} and no wallet
\* input carries it.
C6_OracleBoxFirstWithExtension ==
  InBuilderCall /\ result.kind = "Ok" =>
    LET tx == result.val
        in == args.oracle_src.val.ergo_box
    IN /\ tx.inputs[1].box_id = in.box_id
       /\ wallet_inputs_selected(tx.inputs, args.wallet_src.val, SAFE_USER_MIN)
       /\ tx.outputs[1].tokens = in.tokens.v
       /\ tx.outputs[1].ergo_tree = in.ergo_tree
       /\ tx.inputs[1].extension = <<<<0, Const("Int", 0)>>>>
       /\ \A i \in 2..Len(tx.inputs) :
            /\ tx.inputs[i].extension = <<>>
            /\ tx.inputs[i].box_id # in.box_id

\* C6 witness: a transfer transaction with two wallet inputs after the oracle
\* box
C6_Witness ==
  /\ InTransferCall
  /\ result.kind = "Ok"
  /\ Len(result.val.inputs) = 3
  /\ result.val.inputs[1].box_id = "oracle_box_id"

\* C7: build_publish_datapoint_action fails closed. A failing pool source, a
\* failing oracle source, a zero reward amount, a failing box builder, a
\* failing wallet read, a selection shortfall and a failing transaction
\* builder each end the call with that error and no transaction; a
\* transaction is returned only when every step succeeded; the zero-reward
\* rejection (like an abort of the call) happens before the wallet is read.
C7_PublishFailsClosed ==
  InPublishCall =>
    LET wallet_read == Contains(calls, "get_unspent_wallet_boxes")
        pool_ok == args.pool_src.kind = "Ok"
        oracle_ok == args.oracle_src.kind = "Ok"
        reward == args.oracle_src.val.ergo_box.tokens.v[2].amount
        box_ok == args.oracle_src.val.ergo_box.value >= 360 * 228
    IN /\ result.kind \in {"Ok", "Err", "Panic"}
       /\ result.kind # "Ok" => result.val = None
       /\ ~pool_ok =>
            /\ result = Err(<<"StageError">> \o args.pool_src.err)
            /\ calls = <<"get_pool_box">>
       /\ pool_ok /\ ~oracle_ok =>
            /\ result = Err(<<"StageError">> \o args.oracle_src.err)
            /\ ~wallet_read
       /\ pool_ok /\ oracle_ok /\ reward = 0 =>
            /\ result = Err(<<"NoRewardToken">>)
            /\ ~wallet_read
       /\ result.kind = "Panic" => ~wallet_read
       /\ pool_ok /\ oracle_ok /\ reward # 0 /\ result.kind # "Panic" /\ ~box_ok =>
            /\ result = Err(<<"ErgoBoxCandidateBuilder", "BoxValueTooLow">>)
            /\ ~wallet_read
       /\ wallet_read /\ args.wallet_src.kind = "Err" =>
            result = Err(<<"Node">> \o args.wallet_src.err)
       /\ wallet_read /\ args.wallet_src.kind = "Ok"
          /\ sum_values(args.wallet_src.val) < SAFE_USER_MIN =>
            result = Err(<<"BoxSelector", "NotEnoughCoins">>)
       /\ result.kind = "Ok" =>
            /\ pool_ok /\ oracle_ok /\ reward # 0 /\ box_ok
            /\ args.wallet_src.kind = "Ok"
            /\ sum_values(args.wallet_src.val) >= SAFE_USER_MIN
            /\ wallet_read
            /\ \A i, j \in 1..Len(result.val.inputs) :
                 result.val.inputs[i].box_id = result.val.inputs[j].box_id => i = j
       /\ wallet_read /\ args.wallet_src.kind = "Ok"
          /\ sum_values(args.wallet_src.val) >= SAFE_USER_MIN
          /\ result.kind # "Ok" =>
            /\ result.kind = "Err"
            /\ result.err[1] = "TxBuilder"

\* C7 witness: an oracle box without reward tokens and an empty wallet: the
\* call ends with NoRewardToken before the wallet is read
C7_Witness ==
  /\ InPublishCall
  /\ args.pool_src.kind = "Ok"
  /\ args.oracle_src.kind = "Ok"
  /\ args.oracle_src.val.ergo_box.tokens.v[2].amount = 0
  /\ args.wallet_src = Ok(<<>>)
  /\ result = Err(<<"NoRewardToken">>)
  /\ calls = <<"get_pool_box", "get_local_oracle_datapoint_box">>

(***************************************************************************)
(* Claims about build_transfer_oracle_token_tx (Spec).                     *)
(***************************************************************************)
HasOracleBox == args.oracle_src.kind = "Ok" /\ args.oracle_src.val # None

C9_TransferKeepsVariant ==
  InTransferCall /\ result.kind = "Ok" =>
    LET w == args.oracle_src.val
        in == w.ergo_box
        out == result.val.outputs[1]
    IN /\ w.variant = "Posted" => out.R5 = in.R5 /\ out.R6 = in.R6
                                  /\ in.R5 # None /\ in.R6 # None
       /\ w.variant = "Collected" => out.R5 = None /\ out.R6 = None
       /\ out.R4 = Const("GroupElement", args.oracle_token_destination.pk)
       /\ out.tokens = in.tokens.v
       /\ out.value = in.value
       /\ out.creation_height = args.height

\* C9 witness: a Posted box with epoch counter -1 and rate -3 is transferred
C9_Witness ==
  /\ InTransferCall
  /\ result.kind = "Ok"
  /\ args.oracle_src.val.variant = "Posted"
  /\ result.val.outputs[1].R5 = Const("Int", -1)
  /\ result.val.outputs[1].R6 = Const("Long", -3)
  /\ result.val.outputs[1].R4 = Const("GroupElement", "pkB")

(***************************************************************************)
(* Claims about transfer_oracle_token (Spec).                              *)
(***************************************************************************)
InTransferCommand == fn = "transfer_oracle_token"

Count(q, x) == Cardinality({i \in 1..Len(q) : q[i] = x})

IndexOf(q, x) == CHOOSE i \in 1..Len(q) : q[i] = x

\* line is YES with only whitespace before and after it
is_YES_in_whitespace(line) ==
  \E i \in 1..Len(line) :
    /\ i + 2 <= Len(line)
    /\ line[i] = "Y" /\ line[i + 1] = "E" /\ line[i + 2] = "S"
    /\ \A j \in 1..Len(line) :
         j < i \/ j > i + 2 => line[j] \in {" ", "\n", "\r", "\t"}

\* C10: the transaction is signed and submitted at most once per call, only
\* after the unsigned transaction was built and the operator's answer trimmed
\* to YES; any other answer submits nothing and the call returns Ok; if
\* building fails the operator is not prompted and nothing is submitted.
C10_SubmitOnlyAfterYes ==
  InTransferCommand =>
    LET submits == Count(calls, "sign_and_submit_transaction") IN
    /\ submits <= 1
    /\ submits = locals.submitted
    /\ submits = 1 =>
         /\ locals.unsigned_tx # None
         /\ locals.input # None
         /\ is_YES_in_whitespace(locals.input.v)
         /\ Contains(calls, "println") /\ Contains(calls, "read_line")
         /\ IndexOf(calls, "get_local_oracle_datapoint_box") < IndexOf(calls, "println")
         /\ IndexOf(calls, "println") < IndexOf(calls, "read_line")
         /\ IndexOf(calls, "read_line") < IndexOf(calls, "sign_and_submit_transaction")
    /\ pc = "returned" /\ locals.input # None
       /\ ~is_YES_in_whitespace(locals.input.v) =>
         /\ submits = 0
         /\ result = Ok(None)
    /\ locals.unsigned_tx = None =>
         /\ ~locals.prompted
         /\ ~Contains(calls, "println")
         /\ ~Contains(calls, "read_line")
         /\ submits = 0
    /\ locals.prompted <=> Contains(calls, "println")
    /\ pc = "returned" /\ locals.unsigned_tx = None => result.kind = "Err"

\* C10 witness: the operator answered " YES \r\n" and the transaction was
\* submitted
C10_Witness ==
  /\ InTransferCommand
  /\ pc = "returned"
  /\ locals.input = Some(<<" ", "Y", "E", "S", " ", "\r", "\n">>)
  /\ Count(calls, "sign_and_submit_transaction") = 1
  /\ result = Ok(None)

(***************************************************************************)
(* Claims about the pool box builder and the contract binder               *)
(* (SpecContract).                                                         *)
(***************************************************************************)
\* a candidate built by make_pool_box_candidate was confirmed and validated
InRoundTrip == pc = "returned" /\ fn = "PoolBoxWrapper_new" /\ locals # NoLocals

\* the contract was bound with the validator's contract inputs and the two
\* tokens carry the validator's ids
matches_validator_inputs(made, inputs) ==
  /\ made.parameters.refresh_nft_index = inputs.contract_inputs.refresh_nft_index
  /\ made.parameters.refresh_nft_token_id = inputs.contract_inputs.refresh_nft_token_id
  /\ made.parameters.update_nft_index = inputs.contract_inputs.update_nft_index
  /\ made.parameters.update_nft_token_id = inputs.contract_inputs.update_nft_token_id
  /\ made.pool_nft_token.token_id = inputs.pool_nft_token_id
  /\ made.reward_token.token_id = inputs.reward_token_id

\* the u32 u and the integer x are the same number
u32_is(u, x) == x >= 0 /\ u = <<x \div Half, x % Half>>

\* C11: a candidate built by make_pool_box_candidate from a contract bound
\* with the validator's inputs and tokens carrying the validator's ids, once
\* confirmed, passes PoolBoxWrapper::new, and rate(), epoch_counter(),
\* pool_nft_token() and reward_token() return the datapoint, the epoch
\* counter and the two tokens that were supplied, for every i32 epoch counter.
C11_RoundTrip ==
  InRoundTrip /\ matches_validator_inputs(locals.built_with, args.inputs) =>
    /\ result.kind = "Ok"
    /\ PoolBox_rate(result.val) = locals.built_with.datapoint
    /\ u32_is(PoolBox_epoch_counter(result.val), locals.built_with.epoch_counter)
    /\ PoolBox_pool_nft_token(result.val) = locals.built_with.pool_nft_token
    /\ PoolBox_reward_token(result.val) = locals.built_with.reward_token

\* the same round trip with the epoch counter compared by its 32 bits: what
\* epoch_counter() returns, read back as an i32, is the counter supplied
C11_RoundTripSameBits ==
  InRoundTrip /\ matches_validator_inputs(locals.built_with, args.inputs) =>
    /\ result.kind = "Ok"
    /\ PoolBox_rate(result.val) = locals.built_with.datapoint
    /\ u32_as_i32(PoolBox_epoch_counter(result.val)) = locals.built_with.epoch_counter
    /\ locals.built_with.epoch_counter >= 0 =>
         u32_is(PoolBox_epoch_counter(result.val), locals.built_with.epoch_counter)
    /\ PoolBox_pool_nft_token(result.val) = locals.built_with.pool_nft_token
    /\ PoolBox_reward_token(result.val) = locals.built_with.reward_token
    /\ result.val.contract = locals.built_with.contract

\* a round trip with the epoch counter -1: epoch_counter() returns u32::MAX
C11_NegativeEpochRoundTrip ==
  /\ InRoundTrip
  /\ matches_validator_inputs(locals.built_with, args.inputs)
  /\ result.kind = "Ok"
  /\ locals.built_with.epoch_counter = -1
  /\ PoolBox_epoch_counter(result.val) = U32Max

InNewCall == pc = "returned" /\ fn = "PoolContract_new"

InVerifyCall == pc = "returned" /\ fn = "PoolContract_from_ergo_tree"

\* the script embeds both declared ids at the declared indices
embeds_declared_ids(tree, p) ==
  /\ script_embeds(tree, p.refresh_nft_index, p.refresh_nft_token_id)
  /\ script_embeds(tree, p.update_nft_index, p.update_nft_token_id)

\* C12: a contract returned by PoolContract::new or
\* PoolContract::from_ergo_tree embeds the declared ids: refresh_nft_token_id()
\* and update_nft_token_id() return the parameters' ids without failing; a
\* script (for new: the script after the substitution) whose constant at a
\* declared index is not the declared id gives no contract, also when both
\* declared indices coincide and the ids differ.
C12_ContractEmbedsDeclaredIds ==
  InNewCall \/ InVerifyCall =>
    LET p == args.parameters IN
    /\ result.kind = "Ok" =>
         /\ PoolContract_refresh_nft_token_id(result.val) = Ok(p.refresh_nft_token_id)
         /\ PoolContract_update_nft_token_id(result.val) = Ok(p.update_nft_token_id)
         /\ result.val.refresh_nft_index = p.refresh_nft_index
         /\ result.val.update_nft_index = p.update_nft_index
    /\ InVerifyCall /\ ~embeds_declared_ids(args.ergo_tree, p) => result.kind # "Ok"
    /\ InVerifyCall /\ result.kind = "Ok" => result.val.ergo_tree = args.ergo_tree
    /\ InNewCall /\ p.refresh_nft_index = p.update_nft_index
       /\ p.refresh_nft_token_id # p.update_nft_token_id => result.kind = "Err"
    /\ InNewCall /\ p.p2s.script.kind = "Ok" /\ result.kind = "Ok" =>
         /\ Len(result.val.ergo_tree.constants) = Len(p.p2s.script.val.constants)
         /\ \A i \in 1..Len(result.val.ergo_tree.constants) :
              i - 1 \notin {p.refresh_nft_index, p.update_nft_index} =>
                result.val.ergo_tree.constants[i] = p.p2s.script.val.constants[i]

\* C12 witness: PoolContract::new with both ids declared at index 1 and
\* different ids gives UnknownRefreshNftId instead of a contract
C12_Witness ==
  /\ InNewCall
  /\ args.parameters.p2s = [script |-> Ok(TemplateTree)]
  /\ args.parameters.refresh_nft_index = 1
  /\ args.parameters.update_nft_index = 1
  /\ args.parameters.refresh_nft_token_id = "refresh_nft"
  /\ args.parameters.update_nft_token_id = "update_nft"
  /\ result = Err(<<"UnknownRefreshNftId">>)

\* a contract is returned by both constructors
C12_ContractReturned ==
  /\ InNewCall
  /\ result.kind = "Ok"
  /\ args.parameters.p2s = [script |-> Ok(TemplateTree)]
  /\ result.val.ergo_tree = PoolTree

\* why a slot of the script does not hold the declared id, if it does not
slot_cause(tree, index, id) ==
  IF ~tree.parsed \/ index + 1 > Len(tree.constants) THEN "no constant"
  ELSE IF tree.constants[index + 1].ty # "TokenId" THEN "not a token id"
  ELSE IF tree.constants[index + 1].v # id THEN "wrong value"
  ELSE "none"

\* the first slot that fails, and why
first_failure(tree, p) ==
  IF slot_cause(tree, p.refresh_nft_index, p.refresh_nft_token_id) # "none"
    THEN <<"refresh", slot_cause(tree, p.refresh_nft_index, p.refresh_nft_token_id)>>
  ELSE IF slot_cause(tree, p.update_nft_index, p.update_nft_token_id) # "none"
    THEN <<"update", slot_cause(tree, p.update_nft_index, p.update_nft_token_id)>>
  ELSE <<>>

\* a failing script never aborts the call
C13_NeverAborts == InVerifyCall => result.kind # "Panic"

\* the error tells the slot and the cause: no other call fails with the same
\* error for another slot or another cause
C13_ErrorTellsSlotAndCause ==
  InVerifyCall /\ result.kind = "Err" =>
    \A t \in Trees, q \in VerifyParameterSets :
      PoolContract_from_ergo_tree(t, q) = result =>
        first_failure(t, q) = first_failure(args.ergo_tree, args.parameters)

\* C13: PoolContract::from_ergo_tree fails with an error value, never an
\* abort, and the error is distinguished per slot (refresh NFT, update NFT)
\* and per cause (no constant at the index, constant not a token id, token id
\* with the wrong value): the error alone tells which slot failed and why.
C13_DistinguishedErrors ==
  /\ C13_NeverAborts
  /\ InVerifyCall /\ first_failure(args.ergo_tree, args.parameters) # <<>> =>
       result.kind = "Err"
  /\ C13_ErrorTellsSlotAndCause

\* the errors that are distinguished: a missing constant and a wrong id name
\* their slot; a constant of another type gives TryExtractFrom for both slots
C13_ErrorsOfParsedScripts ==
  InVerifyCall /\ args.ergo_tree.parsed =>
    LET f == first_failure(args.ergo_tree, args.parameters) IN
    /\ f = <<>> <=> result.kind = "Ok"
    /\ f = <<"refresh", "no constant">> <=> result = Err(<<"NoRefreshNftId">>)
    /\ f = <<"update", "no constant">> <=> result = Err(<<"NoUpdateNftId">>)
    /\ f = <<"refresh", "wrong value">> <=> result = Err(<<"UnknownRefreshNftId">>)
    /\ f = <<"update", "wrong value">> <=> result = Err(<<"UnknownUpdateNftId">>)
    /\ f # <<>> /\ f[2] = "not a token id" <=>
         result.kind = "Err" /\ result.err[1] = "TryExtractFrom"

(***************************************************************************)
(* Claims about an oracle that publishes epoch after epoch (SpecFeed).     *)
(***************************************************************************)
\* the rate the oracle has published last
FeedRate == locals.in_oracle_box.ergo_box.R6.v

\* 0.50 <= v/p <= 2.00 for a positive p
moderate_move(v, p) == p > 0 /\ 2 * v >= p /\ v <= 2 * p

capped_step(r, r2, v) ==
  /\ 10000 * v >= 9951 * r /\ 10000 * v <= 10049 * r => r2 = v
  /\ 10000 * v > 10049 * r => r <= r2 /\ r2 < v /\ is_truncation(r2, r, 10049)
  /\ 10000 * v < 9951 * r => v <= r2 /\ r2 < r /\ is_truncation(r2, r, 9951)
  /\ 10000 * v > 10049 * r /\ r < 205 => r2 = r

C14_StalledFeed ==
  /\ pc = "publishing"
  /\ args.first_rate = 100
  /\ args.new_datapoint = 200
  /\ locals.publishes = 2
  /\ FeedRate = 100

(***************************************************************************)
(* C15: the published rate lies between the previous rate and the reading. *)
(***************************************************************************)
InWideCall == pc = "returned" /\ fn = "compute_new_datapoint_wide"

wide_le(a, b) == wide_cmp(a, b) # 1

wide_min(a, b) == IF wide_le(a, b) THEN a ELSE b

wide_max(a, b) == IF wide_le(a, b) THEN b ELSE a

wide_between(r, a, b) == wide_le(wide_min(a, b), r) /\ wide_le(r, wide_max(a, b))

f64_exact(a) == wide_bit_length(a) <= F64MantissaBits

\* C15: for every positive previous rate old and every positive reading new
\* the value r returned by compute_new_datapoint satisfies
\* min(old, new) <= r <= max(old, new).
C15_BetweenOldAndNew ==
  InWideCall => wide_between(result.val, args.old_datapoint, args.datapoint)

\* the same for rates and readings that convert to f64 exactly
C15_BetweenWhenExact ==
  (InWideCall /\ f64_exact(args.old_datapoint) /\ f64_exact(args.datapoint))
    => wide_between(result.val, args.old_datapoint, args.datapoint)

\* a reading 0.49% below a rate above 2^53: the published rate is one below
\* the reading
C15_BelowTheReading ==
  /\ InWideCall
  /\ args.old_datapoint = WideRateBase
  /\ args.datapoint = wide_add(WideLowerCapBase, <<1>>)
  /\ result.val = WideLowerCapBase

RECURSIVE wide_to_int(_)
wide_to_int(a) == IF a = <<>> THEN 0 ELSE a[1] + Limb * wide_to_int(Tail(a))

\* on small values the limb model and the integer model of the policy agree
WideAgreesWithPolicy ==
  (InWideCall /\ Len(args.old_datapoint) <= 1 /\ Len(args.datapoint) <= 1)
    => wide_to_int(result.val) =
         compute_new_datapoint(wide_to_int(args.datapoint), wide_to_int(args.old_datapoint))

====
